---------------------------- MODULE Spec2Model ----------------------------
(***************************************************************************)
(* Verification model of sunblocker (src/sunblocker/sunblocker.py).        *)
(*                                                                         *)
(* Three specifications share the variables of this module:               *)
(*   SpecClip   - one call of Sunblocker.histoclip, step by step;          *)
(*   SpecPhazer - the clip stage and the wedge stage of Sunblocker.phazer; *)
(*   SpecSun    - the day/night walk of Sunblocker.vampirisms.             *)
(*                                                                         *)
(* Numbers.  Sample values are small naturals.  Statistics are kept exact: *)
(* a location is a fraction <<n, d>> (d > 0); a scale is a record          *)
(* [sq, n, d] that stands for sqrt(n)/d when sq is TRUE and for n/d        *)
(* otherwise.  numpy's NaN is the value NaN below.  A raised Python        *)
(* exception is recorded by name in an error variable and ends the run.    *)
(***************************************************************************)
EXTENDS Integers, Sequences, FiniteSets, TLC

\* ------------------------------------------------------------------ bounds
NSamples == 4
MaxVal == 3
MaxThreshold == 2
MaxIgnored == 1
MaxUnflagged == 1
MaxExtent == 1
MaxShift == 0
NTimes == 3
MaxSpan == 8
MaxMargin == 2
MaxCoord == 2
MaxDuv == 2

\* uvmax = None, the default of phazer: no upper limit (uvmax is a length
\* otherwise, so never negative)
NoUvmax == -1

\* numpy.nan in an array of (non-negative) amplitudes
NaN == -1

\* astropy.stats.mad_std scales the median absolute deviation by
\* 1/Phi^-1(3/4) = 1.4826...; kept as the fraction MadNum/MadDen
MadNum == 14826
MadDen == 10000

Samples == 1..NSamples
Values == 0..MaxVal
Thresholds == 1..MaxThreshold

\* ---------------------------------------------------------------- state
VARIABLES
    proc,               \* the method that runs: "histoclip", "phazer", "vampirisms"
    pc,                 \* its position
    error,              \* the exception it raised, "none" if none
    \* arguments of histoclip (in phazer: the arrays it hands to histoclip)
    data, mask, gruvcoord, unflags, threshmode, threshold, ax,
    \* locals of histoclip
    uvgridded, npoints, uvgridded_clipped, average, stdev, med, mad, popt,
    ave, std, select,
    \* phazer
    mode, antenna1, antenna2, flagonlyday, dayflags, radrange, angle, newflags,
    \* phazer, gridding
    uv, duv, uvmin, uvmax, collaflags,
    \* phazer, reading the input sets and writing the output sets
    pol, baselines, dryrun, inset, outset, nrows, tables, io, iset,
    \* vampirisms
    sun, eobstart, eobsend, etimes, avantsoleil, apresnuit, avantnuit,
    apresoleil, nononsoleil, flinvert, esti, eeti, ncross, flags

ctlVars == <<proc, pc, error>>
hcArgs == <<data, mask, gruvcoord, unflags, threshmode, threshold, ax>>
hcLocals == <<uvgridded, npoints, uvgridded_clipped, average, stdev, med, mad,
              popt, ave, std, select>>
phVars == <<mode, antenna1, antenna2, flagonlyday, dayflags, radrange, angle, newflags>>
sunArgs == <<sun, eobstart, eobsend, etimes, avantsoleil, apresnuit, avantnuit,
             apresoleil, nononsoleil, flinvert>>
sunLocals == <<esti, eeti, ncross, flags>>
gridVars == <<uv, duv, uvmin, uvmax, collaflags>>
outVars == <<pol, baselines, dryrun, inset, outset, nrows, tables, io, iset>>
vars == <<ctlVars, hcArgs, hcLocals, phVars, gridVars, outVars, sunArgs, sunLocals>>

\* ----------------------------------------------------------- list helpers
Abs(x) == IF x < 0 THEN -x ELSE x

RECURSIVE SeqSum(_)
SeqSum(s) == IF s = <<>> THEN 0 ELSE Head(s) + SeqSum(Tail(s))

RECURSIVE SeqSumSq(_)
SeqSumSq(s) == IF s = <<>> THEN 0 ELSE Head(s) * Head(s) + SeqSumSq(Tail(s))

RECURSIVE Insert(_, _)
Insert(x, s) ==
    IF s = <<>> THEN <<x>>
    ELSE IF x <= Head(s) THEN <<x>> \o s
    ELSE <<Head(s)>> \o Insert(x, Tail(s))

RECURSIVE Sorted(_)
Sorted(s) == IF s = <<>> THEN <<>> ELSE Insert(Head(s), Sorted(Tail(s)))

RECURSIVE SortedSet(_)
SortedSet(S) ==
    IF S = {} THEN <<>>
    ELSE LET m == CHOOSE x \in S : \A y \in S : x <= y
         IN  <<m>> \o SortedSet(S \ {m})

\* ------------------------------------------------------------ statistics
\* np.nanmedian / np.median of finite values, doubled (an integer)
Median2(s) ==
    LET t == Sorted(s)
        n == Len(t)
    IN  IF n % 2 = 1 THEN 2 * t[(n + 1) \div 2]
        ELSE t[n \div 2] + t[n \div 2 + 1]

\* median(|x - median(x)|), times four (an integer)
Mad4(s) == Median2([i \in 1..Len(s) |-> Abs(2 * s[i] - Median2(s))])

\* np.nanmean
Mean(s) == <<SeqSum(s), Len(s)>>

\* np.nanstd (population standard deviation): sqrt(n*Q - S^2)/n
Std(s) ==
    [sq |-> TRUE,
     n  |-> Len(s) * SeqSumSq(s) - SeqSum(s) * SeqSum(s),
     d  |-> Len(s)]

\* np.nanmedian
Med(s) == <<Median2(s), 2>>

\* astropy.stats.mad_std
MadStd(s) == [sq |-> FALSE, n |-> MadNum * Mad4(s), d |-> 4 * MadDen]

\* --------------------------------------------------------------- histoclip
\* Python's None (for the optional argument unflags)
None == <<>>

\* a statistic that has not been computed yet
NoLoc == <<0, 1>>
NoScale == [sq |-> FALSE, n |-> 0, d |-> 1]
NoFit == [cent |-> NoLoc, sigma |-> NoScale]

\* np.unique(gruvcoord[:, 0]) and np.unique(gruvcoord[:, 1]): sorted, distinct
UGrid(gruv) == SortedSet({gruv[i][1] : i \in DOMAIN gruv})
VGrid(gruv) == SortedSet({gruv[i][2] : i \in DOMAIN gruv})

\* the value histoclip puts in the grid cell (uu, vv): that of the first
\* sample of the cell that the mask does not ignore, NaN if there is none
CellValue(dat, msk, gruv, uu, vv) ==
    LET active == {i \in DOMAIN dat : gruv[i] = <<uu, vv>> /\ ~msk[i]}
    IN  IF active = {} THEN NaN
        ELSE dat[CHOOSE i \in active : \A j \in active : i <= j]

\* the loop over ugrid x vgrid that fills uvgridded
UvGridded(dat, msk, gruv) ==
    LET ug == UGrid(gruv)
        vg == VGrid(gruv)
        nv == Len(vg)
    IN  [k \in 1..(Len(ug) * nv) |->
            CellValue(dat, msk, gruv, ug[((k - 1) \div nv) + 1], vg[((k - 1) % nv) + 1])]

\* uvgridded[np.isfinite(uvgridded)]
Finite(s) == SelectSeq(s, LAMBDA x : x # NaN)

\* one pass of astropy's sigma_clip with cenfunc = median, stdfunc = mad_std:
\* keep x with median - sigma*mad_std <= x <= median + sigma*mad_std
ClipOnce(s, sigma) ==
    SelectSeq(s, LAMBDA x :
        2 * MadDen * Abs(2 * x - Median2(s)) <= sigma * MadNum * Mad4(s))

\* sigma_clip(..., maxiters=None, masked=False): repeat until nothing is
\* clipped; the result holds the surviving values only
RECURSIVE SigmaClip(_, _)
SigmaClip(s, sigma) ==
    IF s = <<>> THEN s
    ELSE LET t == ClipOnce(s, sigma)
         IN  IF Len(t) = Len(s) THEN s ELSE SigmaClip(t, sigma)

\* a slip the except branch could have: the median and the MAD sigma
FitFallbackToMedian(clipped) == [cent |-> Med(clipped), sigma |-> MadStd(clipped)]

\* the except branch of the Gaussian fit: popt = [average, ..., stdev]
FitFallback(clipped) == [cent |-> Mean(clipped), sigma |-> Std(clipped)]

\* what opt.curve_fit can hand back: a fitted centre and a fitted sigma
\* (any value of the bounded set: the optimiser is not modelled), or an
\* exception, which the except branch turns into the moment estimate
FitCentres == {0, MaxVal}
FitSigmas == {1}
FitOutcomes(clipped) ==
    {[cent |-> <<c, 1>>, sigma |-> [sq |-> FALSE, n |-> s, d |-> 1]] :
        c \in FitCentres, s \in FitSigmas}
    \cup {FitFallback(clipped)}

\* the threshmode values for which histoclip assigns ave and std
PolicyModes == {"abs", "std", "mad", "fit"}

\* a slip ThreshPair could have: the 'mad' policy centred on the mean
ThreshPairMeanForMad(tmode, clipped, fit) ==
    CASE tmode = "abs" -> [ave |-> <<0, 1>>, std |-> [sq |-> FALSE, n |-> 1, d |-> 1]]
      [] tmode = "std" -> [ave |-> Mean(clipped), std |-> Std(clipped)]
      [] tmode = "mad" -> [ave |-> Mean(clipped), std |-> MadStd(clipped)]
      [] tmode = "fit" -> [ave |-> fit.cent, std |-> fit.sigma]

\* a slip: the fitted pair taken whatever the policy
ThreshPairOfFit(tmode, clipped, fit) == [ave |-> fit.cent, std |-> fit.sigma]

\* the four if-statements that choose (ave, std)
ThreshPair(tmode, clipped, fit) ==
    CASE tmode = "abs" -> [ave |-> <<0, 1>>, std |-> [sq |-> FALSE, n |-> 1, d |-> 1]]
      [] tmode = "std" -> [ave |-> Mean(clipped), std |-> Std(clipped)]
      [] tmode = "mad" -> [ave |-> Med(clipped), std |-> MadStd(clipped)]
      [] tmode = "fit" -> [ave |-> fit.cent, std |-> fit.sigma]

\* a slip AtLeast could have: a strict comparison
AtLeastStrict(v, loc, thr, sc) ==
    LET a == v * loc[2] - loc[1]
    IN  IF sc.sq
        THEN a * sc.d >= 0 /\ (a * sc.d) * (a * sc.d) > (thr * loc[2]) * (thr * loc[2]) * sc.n
        ELSE a * sc.d > thr * sc.n * loc[2]

\* av >= ave + threshold * std, exactly
AtLeast(v, loc, thr, sc) ==
    LET a == v * loc[2] - loc[1]
    IN  IF sc.sq
        THEN a * sc.d >= 0 /\ (a * sc.d) * (a * sc.d) >= (thr * loc[2]) * (thr * loc[2]) * sc.n
        ELSE a * sc.d >= thr * sc.n * loc[2]

\* a slip Select could have: unflags not applied
SelectIgnoringUnflags(dat, unfl, pair, thr) ==
    [i \in DOMAIN dat |-> AtLeast(dat[i], pair.ave, thr, pair.std)]

\* a slip Select could have: the samples that mask ignores left unflagged
SelectSparingIgnored(dat, unfl, pair, thr) ==
    [i \in DOMAIN dat |->
        /\ AtLeast(dat[i], pair.ave, thr, pair.std) /\ (unfl = None \/ ~unfl[i])
        /\ ~mask[i]]

\* select = av >= ave + threshold*std; select = select * logical_not(unflags)
Select(dat, unfl, pair, thr) ==
    [i \in DOMAIN dat |->
        AtLeast(dat[i], pair.ave, thr, pair.std) /\ (unfl = None \/ ~unfl[i])]

\* np.zeros(av.shape, dtype=bool)
Zeros(dat) == [i \in DOMAIN dat |-> FALSE]

\* a slip TooFew could have: two grid values taken to be enough
TooFewBelowTwo(n) == n < 2

\* if npoints < 3: not sufficient for any statistics
TooFew(n) == n < 3

\* the whole of histoclip as a function of its arguments and of the outcome
\* fit of curve_fit: [raised, select]
Clipped(dat, msk, gruv, thr) == SigmaClip(Finite(UvGridded(dat, msk, gruv)), thr)

Histoclip(dat, msk, gruv, unfl, tmode, thr, fit) ==
    IF TooFew(Len(Finite(UvGridded(dat, msk, gruv))))
    THEN [raised |-> FALSE, select |-> Zeros(dat)]
    ELSE IF tmode \notin PolicyModes
    THEN [raised |-> TRUE, select |-> Zeros(dat)]
    ELSE [raised |-> FALSE,
          select |-> Select(dat, unfl, ThreshPair(tmode, Clipped(dat, msk, gruv, thr), fit), thr)]

\* ------------------------------------------------ histoclip, step by step
\* the variables of the other two methods while histoclip runs alone
PhIdle ==
    /\ mode = "all" /\ antenna1 = <<>> /\ antenna2 = <<>>
    /\ flagonlyday = FALSE /\ dayflags = <<>>
    /\ radrange = 0 /\ angle = 0 /\ newflags = <<>>

\* the variables of the gridding while another method runs alone
GridIdle ==
    /\ uv = <<>> /\ duv = 1 /\ uvmin = 0 /\ uvmax = NoUvmax /\ collaflags = <<>>

\* the variables of the input and output sets while no set is read or written
OutIdle ==
    /\ pol = "i" /\ baselines = [kind |-> "none", pairs |-> {}]
    /\ dryrun = TRUE /\ inset = <<>>
    /\ outset = [kind |-> "none", names |-> <<>>]
    /\ nrows = <<>> /\ tables = <<>> /\ io = {} /\ iset = 0

SunIdle ==
    /\ sun = [rise |-> 0, day |-> 1, night |-> 1]
    /\ eobstart = 0 /\ eobsend = 0 /\ etimes = <<>>
    /\ avantsoleil = 0 /\ apresnuit = 0 /\ avantnuit = 0 /\ apresoleil = 0
    /\ nononsoleil = FALSE /\ flinvert = FALSE
    /\ esti = 0 /\ eeti = 0 /\ ncross = 0 /\ flags = <<>>

HcLocalsUnset ==
    /\ uvgridded = <<>> /\ npoints = 0 /\ uvgridded_clipped = <<>>
    /\ average = NoLoc /\ stdev = NoScale /\ med = NoLoc /\ mad = NoScale
    /\ popt = NoFit /\ ave = NoLoc /\ std = NoScale /\ select = <<>>

\* the grid positions the samples can have: sample i lies in a cell of its
\* own or in the cell of the sample before it
OwnCell(i) == <<i % 2, i \div 2>>
Layout(joined) ==
    [i \in Samples |->
        OwnCell(CHOOSE j \in 1..i : j \notin joined /\ \A k \in (j + 1)..i : k \in joined)]
Layouts == {Layout(joined) : joined \in SUBSET {2, NSamples}}

\* boolean arrays over the samples: the ignore masks set entries among the
\* first MaxIgnored samples, the unflag masks among the last MaxUnflagged
Indicator(S) == [i \in Samples |-> i \in S]
IgnoreMasks == {Indicator(S) : S \in SUBSET (1..MaxIgnored)}
UnflagMasks == {Indicator(S) : S \in SUBSET ((NSamples - MaxUnflagged + 1)..NSamples)}

\* the threshmode strings a caller can pass: the four that histoclip tests
\* for, and "fixed", which the command line and the docstring offer
ThreshModes == PolicyModes \cup {"fixed"}

ClipInit ==
    /\ proc = "histoclip" /\ pc = "call" /\ error = "none"
    /\ data \in [Samples -> Values]
    /\ mask \in IgnoreMasks
    /\ gruvcoord \in Layouts
    /\ unflags \in {None} \cup UnflagMasks
    /\ threshmode \in ThreshModes
    /\ threshold \in Thresholds
    /\ ax \in BOOLEAN
    /\ HcLocalsUnset /\ PhIdle /\ SunIdle /\ GridIdle /\ OutIdle

\* lines 184-216: copy the data, fill the grid, count its finite values and
\* return no flags when there are fewer than three
HcGrid ==
    /\ proc = "histoclip" /\ pc = "call"
    /\ uvgridded' = UvGridded(data, mask, gruvcoord)
    /\ npoints' = Len(Finite(uvgridded'))
    /\ IF TooFew(npoints')
       THEN /\ select' = Zeros(data)
            /\ pc' = "returned"
       ELSE /\ select' = select
            /\ pc' = "gridded"
    /\ UNCHANGED <<proc, error, hcArgs, uvgridded_clipped, average, stdev, med,
                   mad, popt, ave, std, phVars, gridVars, outVars,
                   sunArgs, sunLocals>>

\* lines 218-274: sigma-clip the grid values, take mean, standard deviation,
\* median and MAD sigma of what is left, and fit a Gaussian when the policy
\* is 'fit' or a plot is asked for
HcStats ==
    /\ proc = "histoclip" /\ pc = "gridded"
    /\ uvgridded_clipped' = SigmaClip(Finite(uvgridded), threshold)
    /\ average' = Mean(uvgridded_clipped')
    /\ stdev' = Std(uvgridded_clipped')
    /\ med' = Med(uvgridded_clipped')
    /\ mad' = MadStd(uvgridded_clipped')
    /\ IF threshmode = "fit" \/ ax
       THEN popt' \in FitOutcomes(uvgridded_clipped')
       ELSE popt' = popt
    /\ pc' = "stats"
    /\ UNCHANGED <<proc, error, hcArgs, uvgridded, npoints, ave, std, select,
                   phVars, gridVars, outVars,
                   sunArgs, sunLocals>>

\* lines 276-293 and 361: choose (ave, std) by threshmode, build the mask,
\* clear the entries of unflags, return it.  No branch assigns ave and std
\* for another threshmode: line 291 then raises UnboundLocalError
HcSelect ==
    /\ proc = "histoclip" /\ pc = "stats"
    /\ IF threshmode \in PolicyModes
       THEN /\ ave' = ThreshPair(threshmode, uvgridded_clipped, popt).ave
            /\ std' = ThreshPair(threshmode, uvgridded_clipped, popt).std
            /\ select' = Select(data, unflags, [ave |-> ave', std |-> std'], threshold)
            /\ pc' = "returned"
            /\ error' = error
       ELSE /\ pc' = "raised"
            /\ error' = "UnboundLocalError"
            /\ UNCHANGED <<ave, std, select>>
    /\ UNCHANGED <<proc, hcArgs, uvgridded, npoints, uvgridded_clipped, average,
                   stdev, med, mad, popt, phVars, gridVars, outVars,
                   sunArgs, sunLocals>>

ClipNext == HcGrid \/ HcStats \/ HcSelect

SpecClip == ClipInit /\ [][ClipNext]_vars

\* histoclip on longer inputs and higher thresholds, where the sigma clip of
\* lines 218-219 removes grid values at one threshold and none at the next:
\* every sample lies in a cell of its own, the last one may be ignored by
\* mask, the policy takes its statistics from the data
NTail == 7
TailMaxVal == 5
TailMinThreshold == 3
TailSamples == 1..NTail
TailThresholds == TailMinThreshold..(TailMinThreshold + 1)
TailLayout == [i \in TailSamples |-> <<i, 0>>]
TailData ==
    {d \in [TailSamples -> 0..TailMaxVal] : \A i \in 1..(NTail - 2) : d[i] <= d[i + 1]}
TailMasks == {[i \in TailSamples |-> i \in S] : S \in SUBSET {NTail}}

TailInit ==
    /\ proc = "histoclip" /\ pc = "call" /\ error = "none"
    /\ data \in TailData
    /\ mask \in TailMasks
    /\ gruvcoord = TailLayout
    /\ unflags = None
    /\ threshmode \in {"std", "mad"}
    /\ threshold \in TailThresholds
    /\ ax = FALSE
    /\ HcLocalsUnset /\ PhIdle /\ SunIdle /\ GridIdle /\ OutIdle

SpecTail == TailInit /\ [][ClipNext]_vars

\* ------------------------------------------------------------------ phazer
\* The model of phazer starts where its clip stage starts (line 920): the
\* data sets are read and gridded, data holds each sample's cell value
\* (nmdata) and gruvcoord its cell centre; a sample that fell in no cell has
\* kept the 0 and the (0, 0) both arrays are created with.  It is called
\* with show = None (so ax = None) and vampirisms = False.
NoCell == <<0, 0>>

\* the (antenna1, antenna2) of sample i in antenna pattern s
BaselineOf(i, s) ==
    CASE (i + s) % 4 = 0 -> <<0, 1>>
      [] (i + s) % 4 = 1 -> <<0, 2>>
      [] (i + s) % 4 = 2 -> <<1, 2>>
      [] OTHER -> <<0, 0>>

\* grouping modes the command line offers
Modes == {"all", "antenna", "baseline"}

PhazerInit ==
    /\ proc = "phazer" /\ pc = "gridded" /\ error = "none"
    /\ \E lay \in Layouts, ung \in SUBSET (1..MaxIgnored) :
        /\ gruvcoord = [i \in Samples |-> IF i \in ung THEN NoCell ELSE lay[i]]
        /\ data \in {d \in [Samples -> Values] :
                        /\ \A i \in ung : d[i] = 0
                        /\ \A i, j \in Samples : gruvcoord[i] = gruvcoord[j] => d[i] = d[j]}
    /\ \E s \in 0..MaxShift :
        /\ antenna1 = [i \in Samples |-> BaselineOf(i, s)[1]]
        /\ antenna2 = [i \in Samples |-> BaselineOf(i, s)[2]]
    /\ mode \in Modes
    /\ threshmode \in ThreshModes
    /\ threshold \in Thresholds
    /\ ax = FALSE
    /\ flagonlyday \in BOOLEAN
    /\ dayflags \in (IF flagonlyday THEN UnflagMasks ELSE {None})
    \* lines 924-928: flags = zeros; unflags = dayflags if flagonlyday else None
    /\ mask = Zeros(data)
    /\ unflags = (IF flagonlyday THEN dayflags ELSE None)
    /\ radrange \in 0..MaxExtent
    /\ angle \in 0..MaxExtent
    /\ newflags = <<>>
    /\ HcLocalsUnset /\ SunIdle /\ GridIdle /\ OutIdle

\* np.unique(np.append(antenna1, antenna2))
Antennas(a1, a2) == SortedSet({a1[i] : i \in DOMAIN a1} \cup {a2[i] : i \in DOMAIN a2})

\* np.unique(np.column_stack((antenna1, antenna2))): without an axis argument
\* np.unique flattens, so this is the sorted list of antenna ids, not of pairs
Pairs(a1, a2) == SortedSet({a1[i] : i \in DOMAIN a1} \cup {a2[i] : i \in DOMAIN a2})

\* the outcomes of curve_fit that matter to one call of histoclip
FitChoices(dat, msk, gruv, tmode, thr) ==
    IF tmode = "fit" /\ ~TooFew(Len(Finite(UvGridded(dat, msk, gruv))))
    THEN FitOutcomes(Clipped(dat, msk, gruv, thr))
    ELSE {NoFit}

\* lines 930-944, mode 'all': one call of histoclip over all samples
ClipAll ==
    /\ proc = "phazer" /\ pc = "gridded" /\ mode = "all"
    /\ \E fit \in FitChoices(data, mask, gruvcoord, threshmode, threshold) :
        LET r == Histoclip(data, mask, gruvcoord, unflags, threshmode, threshold, fit)
        IN  IF r.raised
            THEN /\ pc' = "raised" /\ error' = "UnboundLocalError"
                 /\ newflags' = newflags
            ELSE /\ pc' = "clipped" /\ error' = error
                 /\ newflags' = r.select
    /\ UNCHANGED <<proc, hcArgs, hcLocals, mode, antenna1, antenna2, flagonlyday,
                   dayflags, radrange, angle, gridVars, outVars,
                   sunArgs, sunLocals>>

\* lines 945-978, mode 'antenna': newflags = zeros, then the loop over the
\* antennas.  The first statement of the loop body (lines 954-958) reads
\* t.ANTENNA; t is a local of phazer that is assigned only at line 1158, so
\* the first pass raises UnboundLocalError (there is always an antenna)
ClipAntenna ==
    /\ proc = "phazer" /\ pc = "gridded" /\ mode = "antenna"
    /\ newflags' = Zeros(data)
    /\ Antennas(antenna1, antenna2) # <<>>
    /\ pc' = "raised" /\ error' = "UnboundLocalError"
    /\ UNCHANGED <<proc, hcArgs, hcLocals, mode, antenna1, antenna2, flagonlyday,
                   dayflags, radrange, angle, gridVars, outVars,
                   sunArgs, sunLocals>>

\* lines 979-1023, any other mode ('baseline'): newflags = zeros, then the
\* loop over pairs.  pairs is a flat array of antenna ids, so its first
\* element is a scalar and pair[0] at line 989 raises IndexError
ClipBaseline ==
    /\ proc = "phazer" /\ pc = "gridded" /\ mode \notin {"all", "antenna"}
    /\ newflags' = Zeros(data)
    /\ Pairs(antenna1, antenna2) # <<>>
    /\ pc' = "raised" /\ error' = "IndexError"
    /\ UNCHANGED <<proc, hcArgs, hcLocals, mode, antenna1, antenna2, flagonlyday,
                   dayflags, radrange, angle, gridVars, outVars,
                   sunArgs, sunLocals>>

\* wedge_around_centre (lines 88-121): arc1 and arc2 are zip objects, and
\* line 119 adds them: TypeError, for every centre, radrange and angle
WedgeAroundCentreRaises(coord, rad, ang) == TRUE

\* a slip: the mask started afresh
AllCleared(f) == [i \in DOMAIN f |-> FALSE]

\* lines 1050-1056 when the loop runs over no point, and lines 1038-1056
\* when they are skipped: no statement assigns to newflags
WedgeLoopSkipped(f) == f

\* lines 1037-1060: when radrange > 0 and angle > 0, a wedge is built around
\* every flagged point and the samples inside it are flagged (only those
\* that unflags names, when flagonlyday).  The first wedge raises; with no
\* flagged point the loop body never runs
Wedge ==
    /\ proc = "phazer" /\ pc = "clipped"
    /\ IF radrange > 0 /\ angle > 0
          /\ \E i \in Samples : newflags[i] /\ WedgeAroundCentreRaises(i, radrange, angle)
       THEN pc' = "raised" /\ error' = "TypeError" /\ newflags' = newflags
       ELSE pc' = "wedged" /\ error' = error /\ newflags' = WedgeLoopSkipped(newflags)
    /\ UNCHANGED <<proc, hcArgs, hcLocals, mode, antenna1, antenna2, flagonlyday,
                   dayflags, radrange, angle, gridVars, outVars,
                   sunArgs, sunLocals>>

PhazerNext == ClipAll \/ ClipAntenna \/ ClipBaseline \/ Wedge

SpecPhazer == PhazerInit /\ [][PhazerNext]_vars

\* ---------------------------------------------------------- phazer, gridding
\* Lengths in the uv plane are counted in halves of a wavelength, so that a
\* coordinate can be whole or not: np.floor and np.ceil round to an even
\* number.  A cell centre uu + duv/2 is kept doubled, <<2uu + duv, 2vv + duv>>,
\* which is (0, 0) exactly when the centre is.  The data have one channel.
Floor(x) == 2 * (x \div 2)
Ceil(x) == 0 - Floor(0 - x)

SetMin(S) == CHOOSE x \in S : \A y \in S : x <= y
SetMax(S) == CHOOSE x \in S : \A y \in S : x >= y

\* np.arange(lo, hi, step)
Arange(lo, hi, step) == {x \in lo..(hi - 1) : (x - lo) % step = 0}

\* lines 757-795: ugrid and vgrid, for uvmax = uvmx
GridU(uvmx) ==
    LET us == {uv[i][1] : i \in DOMAIN uv}
        umin == IF uvmx # NoUvmax THEN 0 - uvmx ELSE SetMin(us)
        umax == IF uvmx # NoUvmax THEN uvmx ELSE SetMax(us)
    IN  Arange(Floor(umin), Ceil(umax), duv)
GridV(uvmx) ==
    LET vs == {uv[i][2] : i \in DOMAIN uv}
        vmin == IF uvmx # NoUvmax THEN 0 - uvmx ELSE SetMin(vs)
        vmax == IF uvmx # NoUvmax THEN uvmx ELSE SetMax(vs)
    IN  Arange(Floor(vmin), Ceil(vmax), duv)

\* lines 833-851: active_visibs of the cell that starts at (uu, vv)
ActiveVisibs(uu, vv, uvmx) ==
    {i \in DOMAIN uv :
        LET u == uv[i][1]
            v == uv[i][2]
        IN  /\ u > uu /\ u <= uu + duv
            /\ v > vv /\ v <= vv + duv
            /\ (uvmx = NoUvmax \/ u * u + v * v < uvmx * uvmx)
            /\ u * u + v * v > uvmin * uvmin
            /\ ~collaflags[i]}

\* the cells of the double loop whose active_visibs holds sample i
CellsOf(i, uvmx) ==
    {c \in GridU(uvmx) \X GridV(uvmx) : i \in ActiveVisibs(c[1], c[2], uvmx)}

\* the one of them the loop visits last (u outer, v inner, both ascending)
LastCell(cells) ==
    CHOOSE c \in cells :
        \A d \in cells : d[1] < c[1] \/ (d[1] = c[1] /\ d[2] <= c[2])

\* lines 811-815, 855-858: gruvcoord after the loop
GruvcoordOf(uvmx) ==
    [i \in DOMAIN uv |->
        IF CellsOf(i, uvmx) = {} THEN NoCell
        ELSE LET c == LastCell(CellsOf(i, uvmx))
             IN  <<2 * c[1] + duv, 2 * c[2] + duv>>]

RECURSIVE SumOver(_, _)
SumOver(S, dat) ==
    IF S = {} THEN 0
    ELSE LET i == CHOOSE j \in S : TRUE
         IN  dat[i] + SumOver(S \ {i}, dat)

\* lines 808, 863-868, 880: nmdata after the loop: the amplitude of the sum
\* of the cell's active visibilities (one channel, amplitudes in phase)
NmdataOf(uvmx, dat) ==
    [i \in DOMAIN uv |->
        IF CellsOf(i, uvmx) = {} THEN 0
        ELSE LET c == LastCell(CellsOf(i, uvmx))
             IN  SumOver(ActiveVisibs(c[1], c[2], uvmx), dat)]

\* the uv tracks of the data sets: any u; in v the first sample is lowest
\* and the last one highest
UvTracks ==
    {t \in [Samples -> ((0 - MaxCoord)..MaxCoord) \X ((0 - MaxCoord)..MaxCoord)] :
        /\ t[1][2] \in {0 - MaxCoord, 1 - MaxCoord}
        /\ t[NSamples][2] = MaxCoord
        /\ \A i \in 2..(NSamples - 1) : t[i][2] = 0}

\* phazer after the data sets are read (line 752): uv and data as readdata
\* gave them, data NaN where the row is flagged
GridInit ==
    /\ proc = "phazer" /\ pc = "read" /\ error = "none"
    /\ uv \in UvTracks
    /\ duv \in 1..MaxDuv
    /\ uvmin \in 0..1
    /\ uvmax \in {NoUvmax, 0, MaxCoord + 1}
    /\ collaflags \in IgnoreMasks
    /\ data = [i \in Samples |-> IF collaflags[i] THEN NaN ELSE 1]
    /\ mask = <<>> /\ gruvcoord = <<>> /\ unflags = None
    /\ threshmode = "fit" /\ threshold = 1 /\ ax = FALSE
    /\ HcLocalsUnset /\ PhIdle /\ SunIdle /\ OutIdle

\* lines 754-928: the grid, the loop over its cells, data = nmdata; then
\* flags = zeros and unflags for the clip stage
PhGrid ==
    /\ proc = "phazer" /\ pc = "read"
    /\ gruvcoord' = GruvcoordOf(uvmax)
    /\ data' = NmdataOf(uvmax, data)
    /\ mask' = Zeros(data)
    /\ unflags' = IF flagonlyday THEN dayflags ELSE None
    /\ pc' = "gridded"
    /\ UNCHANGED <<proc, error, threshmode, threshold, ax, hcLocals, phVars,
                   gridVars, outVars,
                   sunArgs, sunLocals>>

SpecGrid == GridInit /\ [][PhGrid]_vars

\* -------------------------------------------------------------- vampirisms
\* Time is counted in half sample intervals from the start of the
\* observation: the time stamps are 1, 3, 5, ... (dd), the observation
\* starts half an interval before the first and ends half an interval after
\* the last.  The ephemeris (pyephem) is a sun that rises at sun.rise and
\* every sun.day + sun.night later, and sets sun.day after each rise.
Period(e) == e.day + e.night

\* an ephemeris that answers with the rise at or before t
LastRising(e, t) == e.rise + ((t - e.rise) \div Period(e)) * Period(e)

\* etel.next_rising(esun) with etel.date = t: the first rise after t
NextRising(e, t) == e.rise + (((t - e.rise) \div Period(e)) + 1) * Period(e)

\* etel.next_setting(esun) with etel.date = t: the first set after t
NextSetting(e, t) ==
    (e.rise + e.day) + (((t - e.rise - e.day) \div Period(e)) + 1) * Period(e)

\* At high latitude the sun can stay above or below the horizon for the
\* whole search of pyephem: a sun without night, a sun without day
PolarDay == [rise |-> 0, day |-> 1, night |-> 0]
PolarNight == [rise |-> 0, day |-> 0, night |-> 1]

\* what etel.next_rising(esun) raises instead of returning a date, "none"
\* if it returns: ephem.AlwaysUpError, ephem.NeverUpError
RisingError(e) ==
    IF e.night = 0 THEN "AlwaysUpError"
    ELSE IF e.day = 0 THEN "NeverUpError"
    ELSE "none"

Times == 1..NTimes

SunInit ==
    /\ proc = "vampirisms" /\ pc = "call" /\ error = "none"
    /\ \/ \E d \in 1..MaxSpan, n \in 1..MaxSpan :
            \E r \in 0..(d + n - 1) : sun = [rise |-> r, day |-> d, night |-> n]
       \/ sun \in {PolarDay, PolarNight}
    /\ eobstart = 0
    /\ eobsend = 2 * NTimes
    /\ etimes = [i \in Times |-> 2 * i - 1]
    /\ avantsoleil \in 0..MaxMargin
    /\ apresnuit \in 0..MaxMargin
    /\ avantnuit \in 0..MaxMargin
    /\ apresoleil \in 0..MaxMargin
    /\ nononsoleil \in BOOLEAN
    /\ flinvert \in BOOLEAN
    /\ esti = 0 /\ eeti = 0 /\ ncross = 0 /\ flags = <<>>
    /\ data = <<>> /\ mask = <<>> /\ gruvcoord = <<>> /\ unflags = None
    /\ threshmode = "fit" /\ threshold = 1 /\ ax = FALSE
    /\ HcLocalsUnset /\ PhIdle /\ GridIdle /\ OutIdle

\* a window that leaves out its last instant
WindowOpenEnd(lo, hi) == [i \in Times |-> etimes[i] >= lo /\ hi > etimes[i]]

\* (etimes >= lo) * (hi >= etimes)
Window(lo, hi) == [i \in Times |-> etimes[i] >= lo /\ hi >= etimes[i]]

\* flags + window, on boolean arrays
Union(f, w) == [i \in Times |-> f[i] \/ w[i]]

\* lines 1342-1370: the state of the sun at the start of the observation.
\* If the next setting comes before the next rising the sun is up, and the
\* daylight period is taken to start with the observation
SunStart ==
    /\ proc = "vampirisms" /\ pc = "call"
    /\ IF RisingError(sun) # "none"
       THEN \* line 1346 raises, nothing catches it
            /\ pc' = "raised" /\ error' = RisingError(sun)
            /\ UNCHANGED <<esti, eeti, ncross, flags>>
       ELSE /\ LET rising == NextRising(sun, eobstart)
                   setting == NextSetting(sun, eobstart)
               IN  /\ eeti' = setting
                   /\ IF rising > setting
                      THEN esti' = eobstart /\ ncross' = 0
                      ELSE /\ esti' = rising
                           /\ ncross' = IF rising < eobsend THEN 1 ELSE 0
            /\ flags' = [i \in Times |-> FALSE]
            /\ pc' = "walk" /\ error' = error
    /\ UNCHANGED <<proc, hcArgs, hcLocals, phVars, gridVars, outVars,
                   sunArgs>>

\* lines 1372-1439: one pass of the while loop: the setting after esti, the
\* window or the two windows of this daylight period, the rising after it
SunWalk ==
    /\ proc = "vampirisms" /\ pc = "walk"
    /\ esti - avantsoleil < eobsend
    /\ eeti' = NextSetting(sun, esti)
    /\ esti' = NextRising(sun, eeti')
    /\ ncross' = ncross + (IF eeti' < eobsend THEN 1 ELSE 0)
                        + (IF esti' < eobsend THEN 1 ELSE 0)
    /\ flags' =
        IF nononsoleil
        THEN Union(flags, Window(esti - avantsoleil, eeti' + apresoleil))
        ELSE Union(Union(flags, Window(esti - avantsoleil, esti + apresnuit)),
                   Window(eeti' - avantnuit, eeti' + apresoleil))
    /\ UNCHANGED <<proc, pc, error, hcArgs, hcLocals, phVars, gridVars, outVars,
                   sunArgs>>

\* a slip LogicalNot could have: the inversion left out
LogicalNotSkipped(f) == f

\* np.logical_not(flags)
LogicalNot(f) == [i \in DOMAIN f |-> ~f[i]]

\* lines 1441-1493: the loop has ended; invert the flags if asked to and
\* return them (phazer calls with dryrun = True: nothing is written)
SunReturn ==
    /\ proc = "vampirisms" /\ pc = "walk"
    /\ ~(esti - avantsoleil < eobsend)
    /\ flags' = IF flinvert THEN LogicalNot(flags) ELSE flags
    /\ pc' = "returned"
    /\ UNCHANGED <<proc, error, hcArgs, hcLocals, phVars, gridVars, outVars,
                   sunArgs, esti, eeti, ncross>>

SunNext == SunStart \/ SunWalk \/ SunReturn

\* vampirisms as a function of its arguments (those of the state, and
\* flinvert = inv): the loop from the daylight period that starts at rise
\* with the flags f gathered so far
RECURSIVE WalkFrom(_, _)
WalkFrom(rise, f) ==
    IF rise - avantsoleil < eobsend
    THEN LET setting == NextSetting(sun, rise)
         IN  WalkFrom(NextRising(sun, setting),
                IF nononsoleil
                THEN Union(f, Window(rise - avantsoleil, setting + apresoleil))
                ELSE Union(Union(f, Window(rise - avantsoleil, rise + apresnuit)),
                           Window(setting - avantnuit, setting + apresoleil)))
    ELSE f

\* the array vampirisms returns for the arguments of the state and flinvert = inv
VampirismsReturn(inv) ==
    LET rising == NextRising(sun, eobstart)
        setting == NextSetting(sun, eobstart)
        walked == WalkFrom(IF rising > setting THEN eobstart ELSE rising,
                           [i \in Times |-> FALSE])
    IN  IF inv THEN LogicalNot(walked) ELSE walked

SpecSun == SunInit /\ [][SunNext]_vars

\* vampirisms is sequential code: while a statement is left to run, it runs
SpecSunFair == SunInit /\ [][SunNext]_vars /\ WF_vars(SunNext)

\* --------------------------------------- phazer, input sets and output sets
\* A data set is its FLAG column: for every row the set of entries (one
\* channel, NEntries polarisations) that are flagged.  tables maps the name
\* of every data set on disk to its FLAG column.  io collects what was done
\* to the data sets other than reading: <<by, op, name>> with op "open"
\* (opened with readonly=False), "copy" (created as a copy) or "putcol"
\* (FLAG column written).
NEntries == 2
Entries == 1..NEntries

\* Python's None for the argument outset; a str and a list are told apart
NoOutset == [kind |-> "none", names |-> <<>>]

\* readdata, lines 428-453 and 484: a row is flagged when fewer than one
\* ('i') or fewer than two ('q') of the first and last polarisation are
\* unflagged, and when it is an autocorrelation
RowFlagged(F, p, a1, a2) ==
    LET stflags == (IF 1 \in F THEN 0 ELSE 1) + (IF NEntries \in F THEN 0 ELSE 1)
    IN  \/ (IF p = "i" THEN stflags < 1 ELSE stflags < 2)
        \/ a1 = a2

\* Python's None for the argument baselines, and the arrays of antenna
\* pairs a caller gives
NoBaselines == [kind |-> "none", pairs |-> {}]
BaselineChoices ==
    {NoBaselines, [kind |-> "array", pairs |-> {<<0, 1>>}],
     [kind |-> "array", pairs |-> {<<2, 0>>, <<1, 2>>}]}

\* readdata, lines 492-503: with baselines given, a row is flagged when its
\* antenna pair is in the array in neither order
Deselected(bl, a1, a2) ==
    bl.kind # "none" /\ <<a1, a2>> \notin bl.pairs /\ <<a2, a1>> \notin bl.pairs

\* the baselines argument of the call of readdata for input set k: the
\* call for the first set passes baselines (line 663), the call in the loop
\* over the other sets does not (lines 707-713) and gets the default None
ReadBaselines(k) == IF k = 1 THEN baselines ELSE NoBaselines

\* the FLAG columns of the first k input sets, one after the other
RECURSIVE FlagColumn(_)
FlagColumn(k) == IF k = 0 THEN <<>> ELSE FlagColumn(k - 1) \o tables[inset[k]]

\* lines 654, 685 and 752: nrows, the row count after each input set
NrowsOf == [k \in 1..(Len(inset) + 1) |-> Len(FlagColumn(k - 1))]

\* the input set that holds row i of the concatenated arrays
InsetOf(i) == CHOOSE k \in 1..Len(inset) : NrowsOf[k] < i /\ i <= NrowsOf[k + 1]

\* lines 672-683 and 714-725: phazer calls vampirisms with dryrun=True,
\* whatever its own dryrun is
DryrunAsPhazer(dry) == dry
SunDryrun(dry) == TRUE

\* vampirisms, lines 1286-1289 and 1483-1486: the set is opened for writing
\* and its FLAG column written only when dryrun is false
VampirismsIo(name, dry) ==
    IF dry THEN {}
    ELSE {<<"vampirisms", "open", name>>, <<"vampirisms", "putcol", name>>}

\* the inputs of a run: one input set holding all rows or two input sets,
\* the first with one row; rows 1 and NSamples may carry flags; the output
\* set "c" may exist already, with the last polarisation flagged in every row
InputFlags(p, q) ==
    [r \in Samples |-> IF r = 1 THEN p ELSE IF r = NSamples THEN q ELSE {}]
TablesOf(first, p, q, ex) ==
    [n \in (IF first = NSamples THEN {"a"} ELSE {"a", "b"}) \cup ex |->
        CASE n = "a" -> SubSeq(InputFlags(p, q), 1, first)
          [] n = "b" -> SubSeq(InputFlags(p, q), first + 1, NSamples)
          [] OTHER -> [r \in 1..first |-> {NEntries}]]
Outsets ==
    {NoOutset, [kind |-> "str", names |-> <<"c">>],
     [kind |-> "list", names |-> <<"c">>], [kind |-> "list", names |-> <<"c", "d">>]}
Pols == {"i", "q", "parallel"}
RunModes == Modes \cup {"scan"}
RunThreshModes == {"abs", "mad", "fixed"}

\* what the input sets hold: amplitudes, with at most one high value; a
\* track in the uv plane that puts every sample into a cell of its own;
\* baselines without autocorrelations
RunData == {[i \in Samples |-> IF i = k THEN MaxVal ELSE 0] : k \in {0, 1, NSamples}}
RunTrack ==
    [i \in Samples |->
        IF i = 1 THEN <<0 - 1, 1 - MaxCoord>>
        ELSE IF i = NSamples THEN <<1, MaxCoord>>
        ELSE <<i - 1, 0>>]
RunBaseline(i) == BaselineOf(i % 3, 0)

\* phazer is called (line 517), with any baselines
RunInputs ==
    /\ proc = "phazer" /\ pc = "start" /\ error = "none"
    /\ pol \in Pols
    /\ dryrun \in BOOLEAN
    /\ \E first \in {1, NSamples}, p \in {{}, Entries}, q \in {{}, {1}},
          ex \in SUBSET {"c"} :
        /\ inset = (IF first = NSamples THEN <<"a">> ELSE <<"a", "b">>)
        /\ tables = TablesOf(first, p, q, ex)
    /\ outset \in Outsets
    /\ mode \in RunModes
    /\ threshmode \in RunThreshModes
    /\ threshold = 1
    /\ ax = FALSE
    /\ flagonlyday \in BOOLEAN
    /\ radrange \in 0..MaxExtent
    /\ angle = radrange
    /\ duv = 1 /\ uvmin = 0
    /\ uvmax \in {NoUvmax, 0}
    /\ data = <<>> /\ mask = <<>> /\ gruvcoord = <<>> /\ unflags = None
    /\ uv = <<>> /\ collaflags = <<>>
    /\ antenna1 = <<>> /\ antenna2 = <<>> /\ dayflags = <<>> /\ newflags = <<>>
    /\ nrows = <<>> /\ io = {} /\ iset = 0
    /\ HcLocalsUnset /\ SunIdle

\* phazer is called without a selection of baselines
RunInit == RunInputs /\ baselines = NoBaselines

\* phazer is called with or without one, as a dry run in mode 'all' on all
\* of the uv plane
ReadInit ==
    /\ RunInputs /\ baselines \in BaselineChoices
    /\ mode = "all" /\ threshmode = "abs" /\ radrange = 0 /\ uvmax = NoUvmax
    /\ dryrun /\ outset = NoOutset

\* lines 646-752: every input set is opened read-only and read with
\* readdata, which raises a str (a TypeError) at line 455 when pol is
\* neither 'i' nor 'q'; with flagonlyday, vampirisms gives its dayflags;
\* the arrays of the sets are concatenated and nrows is filled
PhRead ==
    /\ proc = "phazer" /\ pc = "start"
    /\ IF pol \notin {"i", "q"}
       THEN /\ pc' = "raised" /\ error' = "TypeError"
            /\ UNCHANGED <<data, uv, collaflags, antenna1, antenna2, dayflags,
                           nrows, io>>
       ELSE /\ antenna1' = [i \in Samples |-> RunBaseline(i)[1]]
            /\ antenna2' = [i \in Samples |-> RunBaseline(i)[2]]
            /\ collaflags' =
                  [i \in Samples |->
                      \/ RowFlagged(FlagColumn(Len(inset))[i], pol, antenna1'[i], antenna2'[i])
                      \/ Deselected(ReadBaselines(InsetOf(i)), antenna1'[i], antenna2'[i])]
            /\ \E d \in RunData :
                  data' = [i \in Samples |-> IF collaflags'[i] THEN NaN ELSE d[i]]
            /\ uv' = RunTrack
            /\ dayflags' \in (IF flagonlyday THEN UnflagMasks ELSE {None})
            /\ io' = IF flagonlyday
                     THEN io \cup UNION {VampirismsIo(inset[k], SunDryrun(dryrun)) :
                                            k \in 1..Len(inset)}
                     ELSE io
            /\ nrows' = NrowsOf
            /\ pc' = "read" /\ error' = error
    /\ UNCHANGED <<proc, mask, gruvcoord, unflags, threshmode, threshold, ax,
                   hcLocals, mode, flagonlyday, radrange, angle, newflags,
                   duv, uvmin, uvmax, pol, baselines, dryrun, inset, outset,
                   tables, iset,
                   sunArgs, sunLocals>>

\* lines 1133-1137: a str becomes a list of one name, None the input sets
OutsetList(o) ==
    IF o.kind = "none" THEN [kind |-> "list", names |-> inset]
    ELSE [kind |-> "list", names |-> o.names]

\* lines 1133-1142: the output sets are settled; a list of another length
\* than inset raises a str (a TypeError)
OutCheck ==
    /\ proc = "phazer" /\ pc = "wedged"
    /\ outset' = OutsetList(outset)
    /\ IF outset.kind # "none" /\ Len(outset'.names) # Len(inset)
       THEN pc' = "raised" /\ error' = "TypeError" /\ iset' = iset
       ELSE pc' = "apply" /\ error' = error /\ iset' = 1
    /\ UNCHANGED <<proc, hcArgs, hcLocals, phVars, gridVars, pol, baselines,
                   dryrun, inset, nrows, tables, io, sunArgs, sunLocals>>

\* Python's seq[lo:hi]
SliceFromStart(s, lo, hi) == SubSeq(s, 1, hi - lo)
Slice(s, lo, hi) == SubSeq(s, lo + 1, hi)

\* lines 1147, 1157, 1168, 1175: 'if not dryrun'
Writes(dry) == ~dry

\* line 1170: flags[sel, :, :] = True
PutFlags(flagcol, sel) ==
    [r \in DOMAIN flagcol |-> IF sel[r] THEN Entries ELSE flagcol[r]]

\* lines 1144-1177, one pass of the loop over the output sets: the set is
\* opened for writing if it exists and else copied from the input set of
\* the same index, its FLAG column is read, set for the rows of newflags
\* between nrows[i] and nrows[i+1], and written; all of it only if not dryrun
OutApply ==
    /\ proc = "phazer" /\ pc = "apply"
    /\ LET name == outset.names[iset]
           exists == name \in DOMAIN tables
           ondisk == [n \in DOMAIN tables \cup {name} |->
                        IF n \in DOMAIN tables THEN tables[n] ELSE tables[inset[iset]]]
       IN  IF Writes(dryrun)
           THEN /\ tables' =
                      [ondisk EXCEPT ![name] =
                          PutFlags(@, Slice(newflags, nrows[iset], nrows[iset + 1]))]
                /\ io' = io \cup {<<"phazer", "open", name>>, <<"phazer", "putcol", name>>}
                            \cup (IF exists THEN {} ELSE {<<"phazer", "copy", name>>})
           ELSE UNCHANGED <<tables, io>>
    /\ iset' = iset + 1
    /\ pc' = IF iset = Len(outset.names) THEN "done" ELSE "apply"
    /\ UNCHANGED <<proc, error, hcArgs, hcLocals, phVars, gridVars, pol,
                   baselines, dryrun, inset, outset, nrows, sunArgs, sunLocals>>

RunNext ==
    PhRead \/ PhGrid \/ ClipAll \/ ClipAntenna \/ ClipBaseline \/ Wedge
        \/ OutCheck \/ OutApply

SpecRun == RunInit /\ [][RunNext]_vars

\* the reading of the input sets alone
SpecRead == ReadInit /\ [][PhRead]_vars

\* ------------------------------------------------------- the three together
Init == ClipInit \/ PhazerInit \/ SunInit

Next == ClipNext \/ PhazerNext \/ SunNext

Spec == Init /\ [][Next]_vars

\* ================================================================ claims
\* helpers of the claims: statistics by counting, not by sorting
FracEq(a, b) == a[1] * b[2] = b[1] * a[2]
CountBelow(s, x) == Cardinality({i \in DOMAIN s : s[i] < x})
CountAtMost(s, x) == Cardinality({i \in DOMAIN s : s[i] <= x})
Kth(s, k) ==
    CHOOSE x \in {s[i] : i \in DOMAIN s} : CountBelow(s, x) < k /\ k <= CountAtMost(s, x)
TwiceMedian(s) == Kth(s, (Len(s) + 1) \div 2) + Kth(s, (Len(s) \div 2) + 1)
FourTimesMad(s) == TwiceMedian([i \in DOMAIN s |-> Abs(2 * s[i] - TwiceMedian(s))])

\* value >= location + threshold * scale, for a location n/d and a scale
\* sqrt(n)/d or n/d
Reaches(v, loc, thr, sc) ==
    LET lhs == (v * loc[2] - loc[1]) * sc.d
        rhs == thr * loc[2]
    IN  IF sc.sq THEN lhs >= 0 /\ lhs * lhs >= rhs * rhs * sc.n
        ELSE lhs >= rhs * sc.n

\* the statistics the documented policy names, read from histoclip's locals
PolicyLocation ==
    CASE threshmode = "std" -> average
      [] threshmode = "mad" -> med
      [] threshmode = "fit" -> popt.cent
      [] OTHER -> <<0, 1>>
PolicyScale ==
    CASE threshmode = "std" -> stdev
      [] threshmode = "mad" -> mad
      [] threshmode = "fit" -> popt.sigma
      [] OTHER -> [sq |-> FALSE, n |-> 1, d |-> 1]

HistoclipClipped == proc = "histoclip" /\ pc = "returned" /\ npoints >= 3

C2_FixedClipsAtThreshold ==
    (proc = "histoclip" /\ threshmode = "fixed" /\ npoints >= 3
        /\ pc \in {"returned", "raised"}) =>
        /\ pc = "returned"
        /\ \A i \in Samples :
            select[i] <=> (data[i] >= threshold /\ (unflags = None \/ ~unflags[i]))

C4_TooFewGivesNoFlags ==
    (proc = "histoclip" /\ pc # "call"
        /\ Cardinality({gruvcoord[i] : i \in {j \in Samples : ~mask[j]}}) < 3) =>
        /\ pc = "returned" /\ error = "none"
        /\ select = [i \in Samples |-> FALSE]

C4_Witness ==
    /\ proc = "histoclip" /\ pc = "returned" /\ npoints = 2
    /\ threshmode = "fixed"
    /\ \E i \in Samples : data[i] >= threshold

PhazerClipped == proc = "phazer" /\ pc = "clipped"

\* C5: no sample that the unflag mask names is set in the mask histoclip
\* returns, whatever its value, the threshold and the policy; in phazer with
\* flagonlyday no night-time sample (dayflags) is flagged by the clip stage.
C5_UnflaggedNeverFlagged ==
    /\ (proc = "histoclip" /\ pc = "returned" /\ unflags # None) =>
            \A i \in Samples : unflags[i] => ~select[i]
    /\ (PhazerClipped /\ flagonlyday) =>
            \A i \in Samples : dayflags[i] => ~newflags[i]

C5_Witness ==
    /\ PhazerClipped /\ flagonlyday
    /\ \E i, j \in Samples :
        /\ dayflags[i] /\ ~dayflags[j]
        /\ data[i] = data[j]
        /\ newflags[j] /\ ~newflags[i]

\* C6: with flagonlyday and wedge expansion enabled, the wedge loop runs to
\* its end and leaves every night-time sample (dayflags) unflagged.
C6_WedgeKeepsNightUnflagged ==
    (proc = "phazer" /\ flagonlyday /\ radrange > 0 /\ angle > 0
        /\ (pc = "wedged" \/ error = "TypeError")) =>
        /\ pc = "wedged"
        /\ \A i \in Samples : dayflags[i] => ~newflags[i]

\* the ignore mask of the pass of antenna a, and of the pass of baseline (p, q)
TouchesNeither(a) == [i \in Samples |-> antenna1[i] # a /\ antenna2[i] # a]
NotOnBaseline(p, q) == [i \in Samples |-> ~(antenna1[i] = p /\ antenna2[i] = q)]
AntennaIds == {antenna1[i] : i \in Samples} \cup {antenna2[i] : i \in Samples}
BaselinePairs == {<<antenna1[i], antenna2[i]>> : i \in Samples}
PassSelect(ignore) ==
    Histoclip(data, ignore, gruvcoord, unflags, threshmode, threshold, NoFit).select

\* C7: in mode 'antenna' the loop over the distinct antennas runs to its end,
\* each pass ignoring exactly the samples that touch neither end of its
\* antenna, and the mask after the loop is the OR of the passes.
C7_AntennaPassesOred ==
    (proc = "phazer" /\ mode = "antenna" /\ pc # "gridded"
        /\ threshmode \in {"abs", "std", "mad"}) =>
        /\ error = "none"
        /\ newflags = [i \in Samples |->
                          \E a \in AntennaIds : PassSelect(TouchesNeither(a))[i]]

\* C8: in mode 'baseline' there is one pass per distinct pair (p, q) with
\* p # q, ignoring exactly the samples not on that baseline, none for p = q,
\* and the final mask is the OR of the passes.
C8_BaselinePassesOred ==
    (proc = "phazer" /\ mode = "baseline" /\ pc # "gridded"
        /\ threshmode \in {"abs", "std", "mad"}) =>
        /\ error = "none"
        /\ newflags = [i \in Samples |->
                          \E b \in BaselinePairs :
                              b[1] # b[2] /\ PassSelect(NotOnBaseline(b[1], b[2]))[i]]

\* the daylight periods of the ephemeris: period k lasts from RiseOf(k) to
\* SetOf(k); those numbered SunPeriods cover the observation and its margins
RiseOf(k) == sun.rise + k * Period(sun)
SetOf(k) == RiseOf(k) + sun.day
SunPeriods == (0 - 2)..(eobsend + 2)
Overlaps(k) == RiseOf(k) <= eobsend /\ SetOf(k) > eobstart
SunReturned == proc = "vampirisms" /\ pc = "returned"
InDayWindow(i, k) ==
    RiseOf(k) - avantsoleil <= etimes[i] /\ etimes[i] <= SetOf(k) + apresoleil

C10_MarginsOnly ==
    (SunReturned /\ ~nononsoleil /\ ~flinvert) =>
        \A i \in Times :
            flags[i] <=> \E k \in SunPeriods :
                \/ /\ RiseOf(k) - avantsoleil <= etimes[i]
                   /\ etimes[i] <= RiseOf(k) + apresnuit
                \/ /\ SetOf(k) - avantnuit <= etimes[i]
                   /\ etimes[i] <= SetOf(k) + apresoleil

\* C11: for the same data set, position, margins, horizon and nononsoleil,
\* the array vampirisms returns with flinvert is the element-wise complement
\* of the one it returns without, and has one entry per time sample.
C11_InvertIsComplement ==
    SunReturned =>
        /\ DOMAIN flags = Times
        /\ DOMAIN VampirismsReturn(~flinvert) = Times
        /\ \A i \in Times : flags[i] <=> ~VampirismsReturn(~flinvert)[i]

C11_Witness ==
    /\ SunReturned /\ flinvert
    /\ \E i, j \in Times : flags[i] /\ ~flags[j]

\* the sun does not cross the horizon between the start and the end of the
\* observation: it is up all through, or down all through
SunUpThroughout ==
    \/ sun.night = 0
    \/ /\ sun.day > 0
       /\ \E k \in SunPeriods : RiseOf(k) < eobstart /\ SetOf(k) > eobsend
SunDownThroughout ==
    \/ sun.day = 0
    \/ /\ sun.night > 0
       /\ \E k \in SunPeriods : SetOf(k) < eobstart /\ RiseOf(k + 1) > eobsend

\* C12: when the sun crosses the horizon no time during the observation,
\* vampirisms (flinvert = false) ends without error, with no sample flagged
\* if the sun is down all through and every sample flagged if it is up all
\* through, for both values of nononsoleil and all margins.
C12_NoCrossingIsDegenerate ==
    (proc = "vampirisms" /\ pc \in {"returned", "raised"} /\ ~flinvert
        /\ (SunUpThroughout \/ SunDownThroughout)) =>
        /\ pc = "returned" /\ error = "none"
        /\ SunDownThroughout => \A i \in Times : ~flags[i]
        /\ SunUpThroughout => \A i \in Times : flags[i]

PhazerGridded == proc = "phazer" /\ pc = "gridded" /\ uv # <<>>

\* C13: uvmax = 0 switches the upper limit off like uvmax = None: the same
\* samples are gridded into the same cells with the same cell values (and so
\* the same flag mask follows).
C13_UvmaxZeroIsUnset ==
    (PhazerGridded /\ uvmax = 0) =>
        /\ gruvcoord = GruvcoordOf(NoUvmax)
        /\ \A i \in Samples : data[i] = NmdataOf(NoUvmax, [j \in Samples |-> 1])[i]

\* sample i lies in the uv range phazer was configured with
InUvRange(i) ==
    LET r2 == uv[i][1] * uv[i][1] + uv[i][2] * uv[i][2]
    IN  r2 > uvmin * uvmin /\ (uvmax = NoUvmax \/ r2 < uvmax * uvmax)

\* the squares of side duv that hold sample i, edges counted to the square
\* below them, on the lattice that starts at the floor of the data's minimum
\* (of -uvmax when uvmax is set)
SquaresOf(i) ==
    LET ulo == Floor(IF uvmax = NoUvmax THEN SetMin({uv[j][1] : j \in Samples}) ELSE 0 - uvmax)
        vlo == Floor(IF uvmax = NoUvmax THEN SetMin({uv[j][2] : j \in Samples}) ELSE 0 - uvmax)
    IN  {c \in (0..(2 * MaxCoord + 2)) \X (0..(2 * MaxCoord + 2)) :
            /\ ulo + c[1] * duv < uv[i][1] /\ uv[i][1] <= ulo + (c[1] + 1) * duv
            /\ vlo + c[2] * duv < uv[i][2] /\ uv[i][2] <= vlo + (c[2] + 1) * duv}

\* C14: after gridding, every sample that is not excluded on all channels
\* and lies in the uv range is in exactly one grid cell, also a sample at the
\* minimum or maximum coordinate or on a cell edge; a sample outside the uv
\* range is in none.
C14_OneCellPerSample ==
    PhazerGridded =>
        \A i \in Samples :
            IF ~collaflags[i] /\ InUvRange(i)
            THEN /\ Cardinality(CellsOf(i, uvmax)) = 1
                 /\ Cardinality(SquaresOf(i)) = 1
                 /\ data[i] >= 1
            ELSE CellsOf(i, uvmax) = {} /\ data[i] = 0

\* C15: when all (at least 3) grid values are equal, so that the scale is 0,
\* histoclip with threshmode 'std' or 'mad' returns an all-false mask, for
\* every threshold.
C15_EqualValuesGiveNoFlags ==
    (HistoclipClipped /\ threshmode \in {"std", "mad"}
        /\ \A a, b \in DOMAIN uvgridded :
            (uvgridded[a] # NaN /\ uvgridded[b] # NaN) => uvgridded[a] = uvgridded[b]) =>
        \A i \in Samples : ~select[i]

\* the number of samples a mask flags
NFlagged(sel) == Cardinality({i \in DOMAIN sel : sel[i]})

\* C16: for fixed data, ignore mask, grid coordinates, unflag mask and policy
\* ('std' or 'mad', where the statistics are functions of the data), a
\* higher threshold never flags more samples.
C16_MonotoneInThreshold ==
    (HistoclipClipped /\ threshmode \in {"std", "mad"}) =>
        \A t2 \in Thresholds \cup TailThresholds :
            t2 > threshold =>
                NFlagged(Histoclip(data, mask, gruvcoord, unflags, threshmode, t2, NoFit).select)
                    <= NFlagged(select)

\* C17: with radrange > 0 and angle > 0, wedge_around_centre returns for every
\* flagged point a polygon that selwith_path finds to contain that point, so
\* the wedge stage ends without an error and the point is still flagged.
C17_WedgeContainsOwnCentre ==
    (/\ proc = "phazer" /\ radrange > 0 /\ angle > 0
     /\ pc \in {"wedged", "raised"} /\ error \in {"none", "TypeError"}
     /\ \E i \in Samples : newflags[i]) =>
        /\ pc = "wedged"
        /\ \A i \in Samples : newflags[i] => ~WedgeAroundCentreRaises(i, radrange, angle)


\* phazer runs from its call on, with the input sets named
PhazerRun == proc = "phazer" /\ inset # <<>>

InvalidConfiguration ==
    \/ pol \notin {"i", "q"}
    \/ mode \notin Modes
    \/ threshmode \notin PolicyModes
    \/ (outset.kind # "none" /\ Len(outset.names) # Len(inset))

\* C19: a run with an invalid configuration ends with an error, and when it
\* has ended no output set has been opened for writing, copied or written.
C19_InvalidConfigurationFailsClean ==
    (PhazerRun /\ InvalidConfiguration /\ pc \in {"done", "raised"}) =>
        (pc = "raised" /\ io = {})

\* C20: a pass of the output loop without dryrun leaves in row r of output
\* set i all entries flagged when newflags is set at position nrows[i] + r,
\* and else the entries the set had (the input set's, when it is copied);
\* the set keeps its rows, and no other set changes.
C20_FlagsLandOnTheirRows ==
    [][(PhazerRun /\ pc = "apply" /\ ~dryrun) =>
          LET name == outset.names[iset]
              before == IF name \in DOMAIN tables THEN tables[name]
                        ELSE tables[inset[iset]]
          IN  /\ DOMAIN tables' = DOMAIN tables \cup {name}
              /\ \A n \in DOMAIN tables \ {name} : tables'[n] = tables[n]
              /\ DOMAIN tables'[name] = DOMAIN before
              /\ \A r \in DOMAIN before :
                    tables'[name][r] =
                        IF newflags[nrows[iset] + r] THEN Entries ELSE before[r]]_vars
C20_Witness ==
    /\ PhazerRun /\ pc = "done" /\ ~dryrun
    /\ outset.names = <<"c", "d">>
    /\ newflags[1] /\ ~newflags[NSamples]
    /\ tables["a"][1] = {} /\ tables["c"][1] = Entries
    /\ tables["d"][NSamples - 1] = {1}


C22_FitFailureFallsBackToStd ==
    (/\ proc = "histoclip" /\ pc \in {"returned", "raised"} /\ npoints >= 3
     /\ threshmode = "fit" /\ popt = FitFallback(uvgridded_clipped)) =>
        /\ pc = "returned" /\ error = "none"
        /\ select = Histoclip(data, mask, gruvcoord, unflags, "std", threshold, NoFit).select
C22_Witness ==
    /\ HistoclipClipped /\ threshmode = "fit"
    /\ popt = FitFallback(uvgridded_clipped)
    /\ popt.sigma.sq /\ popt.sigma.n > 0
    /\ \E i, j \in Samples : select[i] /\ ~select[j]


\* the passes of the clip stage (one per antenna, or one per baseline of two
\* different antennas), and whether a pass has three finite grid values
GroupPasses ==
    IF mode = "antenna" THEN {TouchesNeither(a) : a \in AntennaIds}
    ELSE {NotOnBaseline(b[1], b[2]) : b \in {c \in BaselinePairs : c[1] # c[2]}}
EnoughData(ignore) == ~TooFew(Len(Finite(UvGridded(data, ignore, gruvcoord))))

\* C23: in modes 'antenna' and 'baseline', when some pass has fewer than
\* three finite grid values the clip stage still runs to its end without an
\* error, and its mask is the OR of the passes that have enough data.
C23_StarvedGroupDoesNotAbort ==
    (/\ proc = "phazer" /\ mode \in {"antenna", "baseline"} /\ pc # "gridded"
     /\ threshmode \in {"abs", "std", "mad"}
     /\ \E g \in GroupPasses : ~EnoughData(g)) =>
        /\ error = "none"
        /\ newflags = [i \in Samples |->
                          \E g \in GroupPasses : EnoughData(g) /\ PassSelect(g)[i]]


\* lines 1387-1389 and 1402-1405: the windows <<start, end>> of the pass for
\* the daylight period from rise to setting, in the order they are added
WindowsOf(rise, setting) ==
    IF nononsoleil
    THEN <<<<rise - avantsoleil, setting + apresoleil>>>>
    ELSE <<<<rise - avantsoleil, rise + apresnuit>>,
           <<setting - avantnuit, setting + apresoleil>>>>

\* C24: the windows of a pass of the walker and those of the pass after it,
\* in the order they are emitted, each have start <= end and each start
\* strictly after the end of the window before.
C24_WindowsOrderedDisjoint ==
    [][(proc = "vampirisms" /\ pc = "walk" /\ pc' = "walk") =>
          LET next == IF esti' - avantsoleil < eobsend
                      THEN WindowsOf(esti', NextSetting(sun, esti'))
                      ELSE <<>>
              all == WindowsOf(esti, eeti') \o next
          IN  \A k \in 1..Len(all) :
                  /\ all[k][1] <= all[k][2]
                  /\ k > 1 => all[k][1] > all[k - 1][2]]_vars


\* C25: with a sun that rises and sets in turn, every pass of the walker's
\* loop asks for the setting after esti and then for the rising after that
\* setting, so that esti < eeti < next esti; the loop goes on exactly while
\* esti - avantsoleil is before the end of the observation, and every call
\* of vampirisms comes to its end.
C25_WalkerTerminates ==
    /\ [][(proc = "vampirisms" /\ pc = "walk" /\ RisingError(sun) = "none") =>
             IF esti - avantsoleil < eobsend
             THEN /\ pc' = "walk"
                  /\ eeti' = NextSetting(sun, esti) /\ esti < eeti'
                  /\ eeti' < esti'
                  /\ \A t \in (eeti' + 1)..(esti' - 1) : NextRising(sun, t) = esti'
             ELSE pc' = "returned" /\ esti' = esti]_vars
    /\ (proc = "vampirisms" /\ pc = "call") ~> (pc \in {"returned", "raised"})
C25_Witness ==
    /\ SunReturned /\ ncross >= 4 /\ avantsoleil > 0
    /\ esti - avantsoleil >= eobsend


\* C26: for threshmode 'std', 'mad' and 'fit', the mask histoclip returns
\* when a plot axis is given is the mask of the call without one (for 'fit',
\* with the same outcome of the fit, which does not depend on ax).
C26_PlotDoesNotChangeMask ==
    (/\ proc = "histoclip" /\ pc \in {"returned", "raised"} /\ ax
     /\ threshmode \in {"std", "mad", "fit"}) =>
        /\ pc = "returned"
        /\ select = Histoclip(data, mask, gruvcoord, unflags, threshmode, threshold,
                              IF threshmode = "fit" THEN popt ELSE NoFit).select
C26_Witness ==
    /\ HistoclipClipped /\ ax /\ threshmode = "std"
    /\ popt # NoFit /\ popt # FitFallback(uvgridded_clipped)
    /\ \E i, j \in Samples : select[i] /\ ~select[j]


\* the cells of the uv grid that hold a sample which is not excluded, by
\* their centres
OccupiedCells ==
    {GruvcoordOf(uvmax)[i] : i \in {j \in DOMAIN uv : CellsOf(j, uvmax) # {}}}

\* C27: when histoclip is called on the gridded data, the array of cell
\* values it takes its statistics from has one finite entry for each
\* occupied cell of the uv grid and none for the samples that are excluded
\* or lie in no cell.
C27_OnlyOccupiedCellsCount ==
    (PhazerRun /\ mode = "all" /\ pc \in {"clipped", "wedged"}) =>
        Len(Finite(UvGridded(data, mask, gruvcoord))) = Cardinality(OccupiedCells)


\* C28: a sample that mask marks as ignored is flagged by histoclip whenever
\* its value is >= ave + threshold * std and unflags does not name it: mask
\* decides what feeds the statistics, not what can be flagged.
C28_IgnoredSamplesStillFlagged ==
    HistoclipClipped =>
        /\ uvgridded = UvGridded(data, mask, gruvcoord)
        /\ \A i \in Samples :
              (mask[i] /\ Reaches(data[i], ave, threshold, std)
                       /\ (unflags = None \/ ~unflags[i])) => select[i]
C28_Witness ==
    /\ HistoclipClipped
    /\ \E i, j \in Samples :
        /\ mask[i] /\ select[i] /\ ~select[j]
        /\ \A k \in Samples \ {i} : gruvcoord[k] # gruvcoord[i]


\* lines 1044-1046: flaggeduv, the copy of the coordinates of the flagged
\* samples that is taken before the loop; by sample
WedgeCentres(f) == {i \in DOMAIN f : f[i]}

\* C29: with radrange > 0 and angle > 0 the wedge stage builds one wedge
\* around each sample the clip stage flagged, in one pass over that
\* snapshot, and ends with a final mask that holds the clip-stage flags,
\* whatever the order of the points (here: with two or more of them).
C29_OnePassOverSnapshot ==
    (/\ proc = "phazer" /\ radrange > 0 /\ angle > 0
     /\ pc \in {"wedged", "raised"} /\ error \in {"none", "TypeError"}
     /\ Cardinality(WedgeCentres(newflags)) >= 2) =>
        /\ pc = "wedged" /\ error = "none"
        /\ \A i \in WedgeCentres(newflags) :
              ~WedgeAroundCentreRaises(i, radrange, angle) /\ newflags[i]


\* C30: after phazer has read its input sets with a baselines array, every
\* sample of every input set whose antenna pair is in the array in neither
\* order is excluded from the analysis (flagged, its value NaN).
C30_BaselinesSelectInEverySet ==
    (PhazerRun /\ pc = "read" /\ baselines.kind # "none") =>
        \A i \in Samples :
            (<<antenna1[i], antenna2[i]>> \notin baselines.pairs
                /\ <<antenna2[i], antenna1[i]>> \notin baselines.pairs) =>
                (collaflags[i] /\ data[i] = NaN)

=============================================================================
